---------------------------- MODULE Spec2Model ----------------------------
(* Model of the two repository-hygiene tools of test-xtc:                    *)
(*   scripts/licensing/licensing.py  (check / apply a license header)       *)
(*   scripts/banwords/banwords.py    (scan files for banned words)          *)
(* Text is a sequence of one-character strings; "\n" is the line terminator. *)
EXTENDS Integers, Sequences, FiniteSets, TLC

\* ------------------------------------------------------------------ bounds
\* greatest number of lines of a generated input file
MaxLines == 2

\* ------------------------------------------------------------ text helpers
NL == "\n"

\* str.startswith
StartsWith(s, p) == Len(p) <= Len(s) /\ SubSeq(s, 1, Len(p)) = p

\* the "in" operator on strings (substring test)
Contains(s, p) == \E i \in 1..(Len(s) - Len(p) + 1) : SubSeq(s, i, i + Len(p) - 1) = p

\* characters str.rstrip() / str.strip() remove
Whitespace == {" ", "\t", "\n", "\r"}

RECURSIVE RStrip(_)
RStrip(s) == IF s # <<>> /\ s[Len(s)] \in Whitespace THEN RStrip(SubSeq(s, 1, Len(s) - 1)) ELSE s

RECURSIVE LStrip(_)
LStrip(s) == IF s # <<>> /\ s[1] \in Whitespace THEN LStrip(Tail(s)) ELSE s

Strip(s) == LStrip(RStrip(s))

\* str.splitlines(): lines end at "\n"; no empty last line after a final "\n"
RECURSIVE SplitFrom(_, _, _, _)
SplitFrom(s, i, cur, acc) ==
    IF i > Len(s) THEN (IF cur = <<>> THEN acc ELSE Append(acc, cur))
    ELSE IF s[i] = NL THEN SplitFrom(s, i + 1, <<>>, Append(acc, cur))
    ELSE SplitFrom(s, i + 1, Append(cur, s[i]), acc)

SplitLines(s) == SplitFrom(s, 1, <<>>, <<>>)

\* concatenation of a list of strings, nothing in between
RECURSIVE Concat(_)
Concat(ls) == IF ls = <<>> THEN <<>> ELSE Head(ls) \o Concat(Tail(ls))

\* text of a file made of the given lines, each terminated by "\n"
RECURSIVE FileOf(_)
FileOf(ls) == IF ls = <<>> THEN <<>> ELSE Head(ls) \o <<NL>> \o FileOf(Tail(ls))

\* "%d" for 0 <= n
RECURSIVE IntToStr(_)
IntToStr(n) ==
    LET d == <<"0", "1", "2", "3", "4", "5", "6", "7", "8", "9">>
    IN  IF n < 10 THEN <<d[n + 1]>> ELSE IntToStr(n \div 10) \o <<d[(n % 10) + 1]>>

\* ------------------------------------------------- licensing.py: constants
LOADER == <<"#", "!">>

PY == <<"p", "y">>
C_ == <<"c">>
H_ == <<"h">>
CPP == <<"c", "p", "p">>
HPP == <<"h", "p", "p">>

COMMENTS ==
    [s \in {PY, C_, H_, CPP, HPP} |-> IF s = PY THEN <<"#", " ">> ELSE <<"/", "/", " ">>]

COPYRIGHT == <<"C", "o", "p", "y", "r", "i", "g", "h", "t">>
EOFMARK == <<"<", "E", "O", "F", ">">>
TMPEXT == <<".", "t", "m", "p">>

\* Path.suffix[1:]: the text after the last "." of the name
RECURSIVE LastDot(_, _)
LastDot(p, i) == IF i = 0 THEN 0 ELSE IF p[i] = "." THEN i ELSE LastDot(p, i - 1)

Suffix(p) ==
    LET k == LastDot(p, Len(p))
    IN  IF k <= 1 THEN <<>> ELSE SubSeq(p, k + 1, Len(p))

\* get_license_header: every license line prefixed by the comment, rstrip()ped
get_license_header(license_text, suffix) ==
    LET ls == SplitLines(license_text)
    IN  [i \in 1..Len(ls) |-> RStrip(COMMENTS[suffix] \o ls[i])]

\* a first line that is a loader line (LOADER and in_lines and in_lines[0].startswith(LOADER))
HasLoader(in_lines) == LOADER # <<>> /\ in_lines # <<>> /\ StartsWith(in_lines[1], LOADER)

\* apply_license, the test for "already licensed"
AlreadyLicensed(comment, in_lines) ==
    \E i \in 1..Len(in_lines) :
        StartsWith(in_lines[i], comment) /\ Contains(in_lines[i], COPYRIGHT)

\* list += str extends the list with the characters of the string, one item each
ExtendWithStr(l) == [i \in 1..Len(l) |-> <<l[i]>>]

\* apply_license, the list out_lines
OutLines(header, in_lines) ==
    IF HasLoader(in_lines)
    THEN ExtendWithStr(in_lines[1]) \o header \o Tail(in_lines)
    ELSE header \o in_lines

\* apply_license, what outf.write(l) adds to the file for one item of out_lines
WrittenFor(l) == l

\* apply_license, the path the new content is written to
SamePath(path) == path

TmpPath(path) == path \o TMPEXT


\* check_license, in_lines after the loader line is dropped, and the number of its first line
BodyLines(in_lines) == IF HasLoader(in_lines) THEN Tail(in_lines) ELSE in_lines

StartLine(in_lines) == IF HasLoader(in_lines) THEN 2 ELSE 1

Item(l) == [none |-> FALSE, val |-> l]

NoneItem == [none |-> TRUE, val |-> <<>>]

\* check_license, the list in_lines + [None]
PaddedNoSentinel(body) == [i \in 1..Len(body) |-> Item(body[i])]

Padded(body) == [i \in 1..(Len(body) + 1) |-> IF i <= Len(body) THEN Item(body[i]) ELSE NoneItem]

Min(a, b) == IF a <= b THEN a ELSE b

\* check_license: the loop over enumerate(zip(header, in_lines + [None])); the result is
\* the returned boolean and, on a mismatch, the arguments of the logged error
check_license(header, in_lines) ==
    LET body == Padded(BodyLines(in_lines))
        n == Min(Len(header), Len(body))
        bad == {i \in 1..n : body[i].none \/ header[i] # body[i].val}
    IN  IF bad = {}
        THEN [ok |-> TRUE, line |-> 0, expect |-> <<>>, actual |-> <<>>]
        ELSE LET i == CHOOSE k \in bad : \A j \in bad : k <= j
             IN  [ok |-> FALSE,
                  line |-> (i - 1) + StartLine(in_lines),
                  expect |-> header[i],
                  actual |-> IF body[i].none THEN EOFMARK ELSE body[i].val]

\* main, failed_count = sum(not c for c in checks)
FailedCountOfPassed(checks) == Cardinality({i \in 1..Len(checks) : checks[i]})

FailedCount(checks) == Cardinality({i \in 1..Len(checks) : ~checks[i]})

\* main, "if failed_count: ... raise SystemExit(1)"
NeverExits(failed_count) == FALSE

ExitsAfterCheck(failed_count) == failed_count # 0

\* ---------------------------------------------------------- banwords.py
HIDDEN == <<"<", "h", "i", "d", "d", "e", "n", ">">>

UpperCase == <<"A", "B", "C", "D", "E", "F", "G", "H", "I", "J", "K", "L", "M",
               "N", "O", "P", "Q", "R", "S", "T", "U", "V", "W", "X", "Y", "Z">>

LowerCase == <<"a", "b", "c", "d", "e", "f", "g", "h", "i", "j", "k", "l", "m",
               "n", "o", "p", "q", "r", "s", "t", "u", "v", "w", "x", "y", "z">>

Digits == {"0", "1", "2", "3", "4", "5", "6", "7", "8", "9"}

Range(f) == {f[i] : i \in DOMAIN f}

\* the characters \w matches
WordChars == Range(UpperCase) \cup Range(LowerCase) \cup Digits \cup {"_"}

\* re.IGNORECASE compares characters by their lower case
Lower(c) ==
    IF c \in Range(UpperCase)
    THEN LowerCase[CHOOSE i \in 1..Len(UpperCase) : UpperCase[i] = c]
    ELSE c

IsWordAt(s, i) == i >= 1 /\ i <= Len(s) /\ s[i] \in WordChars

\* \b before the character at position i (i = Len(s) + 1: at the end)
Boundary(s, i) == IsWordAt(s, i - 1) # IsWordAt(s, i)

\* the literal w matches at position i, ignoring case
MatchAt(s, i, w) ==
    /\ i + Len(w) - 1 <= Len(s)
    /\ \A k \in 1..Len(w) : Lower(s[i + k - 1]) = Lower(w[k])

\* load_banlist: the stripped, non-empty, non-comment lines of the decoded list
load_banlist(content) ==
    LET ls == SplitLines(content)
        keep == {i \in 1..Len(ls) : Strip(ls[i]) # <<>> /\ ~StartsWith(Strip(ls[i]), <<"#">>)}
        F[i \in 0..Len(ls)] ==
            IF i = 0 THEN <<>>
            ELSE IF i \in keep THEN Append(F[i - 1], Strip(ls[i])) ELSE F[i - 1]
    IN  F[Len(ls)]

\* the alternatives of the group of r"\b(" + "|".join(words) + r")\b": re.escape makes
\* each word a literal, and the join of no word is the empty alternative
Alternatives(words) == IF words = <<>> THEN << <<>> >> ELSE words

\* the first alternative with which \b(...)\b matches at position i, 0 when none does
FirstAlt(s, i, alts) ==
    LET ok == {k \in 1..Len(alts) :
                  /\ Boundary(s, i)
                  /\ MatchAt(s, i, alts[k])
                  /\ Boundary(s, i + Len(alts[k]))}
    IN  IF ok = {} THEN 0 ELSE CHOOSE k \in ok : \A j \in ok : k <= j

\* pattern.findall(line): the matched texts as found, leftmost first, not overlapping
RECURSIVE FindAll(_, _, _)
FindAll(s, i, alts) ==
    IF i > Len(s) + 1 THEN <<>>
    ELSE LET k == FirstAlt(s, i, alts)
         IN  IF k = 0 THEN FindAll(s, i + 1, alts)
             ELSE IF alts[k] = <<>> THEN << <<>> >> \o FindAll(s, i + 1, alts)
             ELSE <<SubSeq(s, i, i + Len(alts[k]) - 1)>> \o FindAll(s, i + Len(alts[k]), alts)

\* list(dict.fromkeys(xs)): first occurrences, in order
RECURSIVE Dedup(_, _)
Dedup(xs, acc) ==
    IF xs = <<>> THEN acc
    ELSE Dedup(Tail(xs), IF Head(xs) \in Range(acc) THEN acc ELSE Append(acc, Head(xs)))

Matches(line, alts) == Dedup(FindAll(line, 1, alts), <<>>)

\* ", ".join(matches)
RECURSIVE CommaJoin(_)
CommaJoin(ms) ==
    IF ms = <<>> THEN <<>>
    ELSE IF Len(ms) = 1 THEN ms[1]
    ELSE ms[1] \o <<",", " ">> \o CommaJoin(Tail(ms))

\* check_file, the last argument of the diagnostic
ShownWords(matches, show) == IF show THEN CommaJoin(matches) ELSE HIDDEN

\* check_file, the text of "found %d banned word\n%s:%d: %s"
Diagnostic(path, lineno, matches, show) ==
    <<"f", "o", "u", "n", "d", " ">> \o IntToStr(Len(matches))
        \o <<" ", "b", "a", "n", "n", "e", "d", " ", "w", "o", "r", "d", NL>>
        \o path \o <<":">> \o IntToStr(lineno) \o <<":", " ">> \o ShownWords(matches, show)

\* check_file, the loop over the lines: the diagnostics logged and the count returned
RECURSIVE ScanLines(_, _, _, _, _)
ScanLines(path, lines, idx, alts, show) ==
    IF idx > Len(lines) THEN [count |-> 0, log |-> <<>>]
    ELSE LET m == Matches(lines[idx], alts)
             rest == ScanLines(path, lines, idx + 1, alts, show)
         IN  [count |-> Len(m) + rest.count,
              log |-> (IF m # <<>>
                       THEN <<[msg |-> Diagnostic(path, idx, m, show), matches |-> m,
                               show |-> show, path |-> path, line |-> idx]>>
                       ELSE <<>>) \o rest.log]

\* check_file: a file that does not decode as text is read as ""
check_file(path, text, undecodable, alts, show) ==
    ScanLines(path, SplitLines(IF undecodable THEN <<>> ELSE text), 1, alts, show)

\* ------------------------------------------------------------------ inputs
\* the tracked files a run can list: "a.py" and "bad.c"
PATHS == {<<"a", ".", "p", "y">>, <<"b", "a", "d", ".", "c">>}

\* the filtered list of main: paths in any order, without duplicates (dict.fromkeys)
PathLists ==
    {<<>>} \cup {<<p>> : p \in PATHS} \cup {<<p, q>> : <<p, q>> \in {x \in PATHS \X PATHS : x[1] # x[2]}}

\* license files: "Copyright 24\n", "Copyright 24\n\nMIT \n" and the empty file
LICENSES ==
    { <<"C", "o", "p", "y", "r", "i", "g", "h", "t", " ", "2", "4", NL>>,
      <<"C", "o", "p", "y", "r", "i", "g", "h", "t", " ", "2", "4", NL, NL, "M", "I", "T", " ", NL>>,
      <<>> }

\* lines of the source files of a licensing run: "#!sh", "# Copyright 24", "a=1" for
\* a .py file and "// Copyright 24", "x;" for a .c file
LinePool(suffix) ==
    IF suffix = PY
    THEN { <<"#", "!", "s", "h">>,
           <<"#", " ", "C", "o", "p", "y", "r", "i", "g", "h", "t", " ", "2", "4">>,
           <<"a", "=", "1">> }
    ELSE { <<"/", "/", " ", "C", "o", "p", "y", "r", "i", "g", "h", "t", " ", "2", "4">>,
           <<"x", ";">> }

\* decoded banned-word lists: "", "# c\n\n" and "bad\n# c\n ab \n"
BANLISTS ==
    { <<>>,
      <<"#", " ", "c", NL, NL>>,
      <<"b", "a", "d", NL, "#", " ", "c", NL, " ", "a", "b", " ", NL>> }

\* lines of the files of a banword run: "Bad bad", "abad ab" and "++"
BanPool ==
    { <<"B", "a", "d", " ", "b", "a", "d">>,
      <<"a", "b", "a", "d", " ", "a", "b">>,
      <<"+", "+">> }

\* the texts of at most MaxLines lines of a pool
Texts(pool) == {FileOf(ls) : ls \in UNION {[1..k -> pool] : k \in 0..MaxLines}}

File(text) == [exists |-> TRUE, text |-> text]

Absent == [exists |-> FALSE, text |-> <<>>]

AllPaths == PATHS \cup {TmpPath(p) : p \in PATHS}

InList(ps) == {ps[i] : i \in DOMAIN ps}

\* ------------------------------------------------------------------- state
VARIABLES
    tool,        \* "licensing" or "banwords": the program that runs
    pc,          \* the position of main
    exit_code,   \* the exit status once pc = "exited", -1 before
    paths,       \* main: the filtered list of paths
    fs,          \* the file system: path -> [exists, text]
    fs0,         \* the file system when the run started
    nwrites,     \* path -> number of operations of the run that wrote the path
    license,     \* the text of the license file
    check,       \* args.check
    apply,       \* args.apply
    cur,         \* index in paths of the file the current loop is at
    checks,      \* main: the list checks
    errors,      \* the header mismatches logged by check_license
    applied,     \* main: the list applied
    out_lines,   \* apply_license: out_lines of the file being written
    widx,        \* apply_license: index in out_lines of the next write
    bantext,     \* the decoded banned-word list
    show,        \* args.show
    binary,      \* the paths whose content does not decode as text
    total_count, \* banwords main: total_count
    counts,      \* the value check_file returned for each scanned file
    log          \* the diagnostics logged by check_file

vars == <<tool, pc, exit_code, paths, fs, fs0, nwrites, license, check, apply, cur, checks,
          errors, applied, out_lines, widx, bantext, show, binary, total_count, counts, log>>

licVars == <<license, check, apply, checks, errors, applied, out_lines, widx>>

banVars == <<bantext, show, binary, total_count, counts, log>>

LicensingTexts(p) == {<<>>} \cup Texts(LinePool(Suffix(p)))

BanwordTexts(p) == {<<>>} \cup Texts(BanPool)

\* the texts the file at path p can hold at the start of a run of the tool t
TextsFor(t, p) == IF t = "licensing" THEN LicensingTexts(p) ELSE BanwordTexts(p)

\* the file systems in which every listed path is a file whose text is one of
\* TextsFor(t, path), an undecodable file having no text, and nothing else exists
FileSystems(t, ps, bin) ==
    LET all == UNION {TextsFor(t, p) : p \in PATHS}
        ts == {x \in [PATHS -> all] :
                  \A p \in PATHS : IF p \in InList(ps) /\ p \notin bin
                                   THEN x[p] \in TextsFor(t, p)
                                   ELSE x[p] = <<>>}
    IN  {[p \in AllPaths |-> IF p \in InList(ps) THEN File(x[p]) ELSE Absent] : x \in ts}

InitCommon ==
    /\ pc = "start"
    /\ exit_code = -1
    /\ fs0 = fs
    /\ nwrites = [p \in AllPaths |-> 0]
    /\ cur = 1
    /\ checks = <<>>
    /\ errors = <<>>
    /\ applied = <<>>
    /\ out_lines = <<>>
    /\ widx = 1
    /\ total_count = 0
    /\ counts = <<>>
    /\ log = <<>>

InitLicensing ==
    /\ tool = "licensing"
    /\ paths \in PathLists
    /\ license \in LICENSES
    /\ check \in BOOLEAN
    /\ apply \in BOOLEAN
    /\ bantext = <<>>
    /\ show = FALSE
    /\ binary = {}
    /\ fs \in FileSystems(tool, paths, binary)
    /\ InitCommon

InitBanwords ==
    /\ tool = "banwords"
    /\ paths \in PathLists
    /\ bantext \in BANLISTS
    /\ show \in BOOLEAN
    /\ license = <<>>
    /\ check = TRUE
    /\ apply = FALSE
    /\ binary \in SUBSET InList(paths)
    /\ fs \in FileSystems(tool, paths, binary)
    /\ InitCommon

Init == InitLicensing \/ InitBanwords

\* ---------------------------------------------------- licensing.py: main
Exit(code) == pc' = "exited" /\ exit_code' = code

HeaderOf(path) == get_license_header(license, Suffix(path))

LinesOf(path) == SplitLines(fs[path].text)

\* main up to the first loop: no file, or the check loop, or the apply loop, or the end
LicStart ==
    /\ tool = "licensing" /\ pc = "start"
    /\ IF paths = <<>> THEN Exit(0)
       ELSE IF check THEN pc' = "check" /\ exit_code' = exit_code
       ELSE IF apply THEN pc' = "apply" /\ exit_code' = exit_code
       ELSE Exit(0)
    /\ UNCHANGED <<tool, paths, fs, fs0, nwrites, cur, licVars, banVars>>

\* one call of check_license in the list comprehension
CheckOne ==
    /\ tool = "licensing" /\ pc = "check" /\ cur <= Len(paths)
    /\ LET r == check_license(HeaderOf(paths[cur]), LinesOf(paths[cur]))
       IN  /\ checks' = Append(checks, r.ok)
           /\ errors' = IF r.ok THEN errors
                        ELSE Append(errors, [path |-> paths[cur], line |-> r.line,
                                             expect |-> r.expect, actual |-> r.actual])
    /\ cur' = cur + 1
    /\ UNCHANGED <<tool, pc, exit_code, paths, fs, fs0, nwrites, license, check, apply,
                   applied, out_lines, widx, banVars>>

\* the end of the check: exit 1 on a failure, else on to the apply loop or the end
CheckDone ==
    /\ tool = "licensing" /\ pc = "check" /\ cur > Len(paths)
    /\ IF ExitsAfterCheck(FailedCount(checks)) THEN Exit(1) /\ cur' = cur
       ELSE IF apply THEN pc' = "apply" /\ exit_code' = exit_code /\ cur' = 1
       ELSE Exit(0) /\ cur' = cur
    /\ UNCHANGED <<tool, paths, fs, fs0, nwrites, licVars, banVars>>

\* apply_license on a file taken as licensed already: returns 0
ApplySkip ==
    /\ tool = "licensing" /\ pc = "apply" /\ cur <= Len(paths)
    /\ AlreadyLicensed(COMMENTS[Suffix(paths[cur])], LinesOf(paths[cur]))
    /\ applied' = Append(applied, 0)
    /\ cur' = cur + 1
    /\ UNCHANGED <<tool, pc, exit_code, paths, fs, fs0, nwrites, license, check, apply,
                   checks, errors, out_lines, widx, banVars>>

\* apply_license up to the open of the temporary file: out_lines is built
ApplyPrepare ==
    /\ tool = "licensing" /\ pc = "apply" /\ cur <= Len(paths)
    /\ ~AlreadyLicensed(COMMENTS[Suffix(paths[cur])], LinesOf(paths[cur]))
    /\ out_lines' = OutLines(HeaderOf(paths[cur]), LinesOf(paths[cur]))
    /\ pc' = "apply_open"
    /\ UNCHANGED <<tool, exit_code, paths, fs, fs0, nwrites, license, check, apply, cur,
                   checks, errors, applied, widx, banVars>>

\* open(tmp_path, "w"): the file is created, or truncated
ApplyOpen ==
    /\ tool = "licensing" /\ pc = "apply_open"
    /\ fs' = [fs EXCEPT ![TmpPath(paths[cur])] = File(<<>>)]
    /\ nwrites' = [nwrites EXCEPT ![TmpPath(paths[cur])] = @ + 1]
    /\ widx' = 1
    /\ pc' = "apply_write"
    /\ UNCHANGED <<tool, exit_code, paths, fs0, license, check, apply, cur, checks, errors,
                   applied, out_lines, banVars>>

\* outf.write(l) for the next item of out_lines
ApplyWrite ==
    /\ tool = "licensing" /\ pc = "apply_write" /\ widx <= Len(out_lines)
    /\ fs' = [fs EXCEPT ![TmpPath(paths[cur])].text = @ \o WrittenFor(out_lines[widx])]
    /\ nwrites' = [nwrites EXCEPT ![TmpPath(paths[cur])] = @ + 1]
    /\ widx' = widx + 1
    /\ UNCHANGED <<tool, pc, exit_code, paths, fs0, license, check, apply, cur, checks,
                   errors, applied, out_lines, banVars>>

\* the end of the with block: the temporary file is closed
ApplyClose ==
    /\ tool = "licensing" /\ pc = "apply_write" /\ widx > Len(out_lines)
    /\ pc' = "apply_replace"
    /\ UNCHANGED <<tool, exit_code, paths, fs, fs0, nwrites, license, check, apply, cur,
                   checks, errors, applied, out_lines, widx, banVars>>

\* tmp_path.replace(path) and return 1
ApplyReplace ==
    /\ tool = "licensing" /\ pc = "apply_replace"
    /\ LET tmp == TmpPath(paths[cur])
       IN  IF tmp = paths[cur]
           THEN fs' = fs /\ nwrites' = nwrites
           ELSE /\ fs' = [fs EXCEPT ![paths[cur]] = fs[tmp], ![tmp] = Absent]
                /\ nwrites' = [nwrites EXCEPT ![paths[cur]] = @ + 1]
    /\ applied' = Append(applied, 1)
    /\ cur' = cur + 1
    /\ pc' = "apply"
    /\ UNCHANGED <<tool, exit_code, paths, fs0, license, check, apply, checks, errors,
                   out_lines, widx, banVars>>

\* the end of the apply loop and of main
ApplyDone ==
    /\ tool = "licensing" /\ pc = "apply" /\ cur > Len(paths)
    /\ Exit(0)
    /\ UNCHANGED <<tool, paths, fs, fs0, nwrites, cur, licVars, banVars>>

\* the process is killed at any point of the apply loop
Crash ==
    /\ tool = "licensing" /\ pc \in {"apply", "apply_open", "apply_write", "apply_replace"}
    /\ pc' = "crashed"
    /\ UNCHANGED <<tool, exit_code, paths, fs, fs0, nwrites, cur, licVars, banVars>>

\* ----------------------------------------------------- banwords.py: main
\* main up to the scan loop: no file, or the pattern is compiled
BanStart ==
    /\ tool = "banwords" /\ pc = "start"
    /\ IF paths = <<>> THEN Exit(0)
       ELSE pc' = "scan" /\ exit_code' = exit_code
    /\ UNCHANGED <<tool, paths, fs, fs0, nwrites, cur, licVars, banVars>>

\* one turn of the loop: check_file on the next file, its count added to total_count
ScanFile ==
    /\ tool = "banwords" /\ pc = "scan" /\ cur <= Len(paths)
    /\ LET r == check_file(paths[cur], fs[paths[cur]].text, paths[cur] \in binary,
                           Alternatives(load_banlist(bantext)), show)
       IN  /\ total_count' = total_count + r.count
           /\ counts' = Append(counts, r.count)
           /\ log' = log \o r.log
    /\ cur' = cur + 1
    /\ UNCHANGED <<tool, pc, exit_code, paths, fs, fs0, nwrites, licVars, bantext, show, binary>>

\* after the loop: exit 1 when total_count is not zero
BanDone ==
    /\ tool = "banwords" /\ pc = "scan" /\ cur > Len(paths)
    /\ IF total_count # 0 THEN Exit(1) ELSE Exit(0)
    /\ UNCHANGED <<tool, paths, fs, fs0, nwrites, cur, licVars, banVars>>

Next ==
    \/ LicStart \/ CheckOne \/ CheckDone
    \/ ApplySkip \/ ApplyPrepare \/ ApplyOpen \/ ApplyWrite \/ ApplyClose \/ ApplyReplace
    \/ ApplyDone \/ Crash
    \/ BanStart \/ ScanFile \/ BanDone

Spec == Init /\ [][Next]_vars

\* ------------------------------------------------- properties: licensing
\* the run is a licensing run and apply_license has returned for the i-th path
Applied(i) == tool = "licensing" /\ i \in 1..Len(applied)

OldLines(p) == SplitLines(fs0[p].text)

\* a first line starting with "#!"
LoaderLine(ls) == ls # <<>> /\ Len(ls[1]) >= 2 /\ ls[1][1] = "#" /\ ls[1][2] = "!"

AfterLoader(ls) == IF LoaderLine(ls) THEN SubSeq(ls, 2, Len(ls)) ELSE ls

\* the header lines all stand, in order, at the top of the lines ls
HeaderStands(hdr, ls) == \A k \in 1..Len(hdr) : k <= Len(ls) /\ ls[k] = hdr[k]

\* C1: every file apply_license has modified (returned 1) passes check_license with the
\* same license right afterwards.
C1_ApplyThenCheckPasses ==
    \A i \in 1..Len(paths) :
        (Applied(i) /\ applied[i] = 1)
            => check_license(HeaderOf(paths[i]), LinesOf(paths[i])).ok

\* the license carries the "Copyright" marker the second application looks for
LicenseHasMarker == Contains(license, COPYRIGHT)

\* C2: a second apply_license right after the first returns 0 and leaves the file as it
\* is: after the first call the file counts as already licensed (the license being one
\* that carries the "Copyright" marker).
C2_ApplyIdempotent ==
    \A i \in 1..Len(paths) :
        (Applied(i) /\ LicenseHasMarker)
            => AlreadyLicensed(COMMENTS[Suffix(paths[i])], LinesOf(paths[i]))

\* C3: the lines of a file apply_license has modified are the loader line if there was
\* one, then the header lines, then the other original lines, each a line of its own.
C3_SplicedLines ==
    \A i \in 1..Len(paths) :
        (Applied(i) /\ applied[i] = 1)
            => LinesOf(paths[i]) =
                   (IF LoaderLine(OldLines(paths[i])) THEN <<OldLines(paths[i])[1]>> ELSE <<>>)
                       \o HeaderOf(paths[i]) \o AfterLoader(OldLines(paths[i]))

\* the first header position at which the lines ls do not carry the header
FirstMismatch(hdr, ls) ==
    CHOOSE k \in 1..Len(hdr) :
        /\ ~(k <= Len(ls) /\ ls[k] = hdr[k])
        /\ \A j \in 1..(k - 1) : j <= Len(ls) /\ ls[j] = hdr[j]

\* the error check_license is to log for path p: the line number counted in the whole
\* file, the header line expected there and the line found, "<EOF>" past the end
ExpectedError(p) ==
    LET hdr == HeaderOf(p)
        ls == AfterLoader(OldLines(p))
        k == FirstMismatch(hdr, ls)
    IN  [path |-> p,
         line |-> k + (IF LoaderLine(OldLines(p)) THEN 1 ELSE 0),
         expect |-> hdr[k],
         actual |-> IF k > Len(ls) THEN EOFMARK ELSE ls[k]]

\* the paths among the first n whose check returned False, in order
RECURSIVE FailedPaths(_)
FailedPaths(n) ==
    IF n = 0 THEN <<>>
    ELSE IF checks[n] THEN FailedPaths(n - 1) ELSE Append(FailedPaths(n - 1), paths[n])

\* C4: check_license returns True iff, the loader line dropped, every header line stands
\* at its position in the file, a file that ends early failing; the error logged for a
\* failed file names the first mismatch by its 1-based line number in the whole file.
C4_CheckIffHeaderStands ==
    tool = "licensing" =>
        /\ \A i \in 1..Len(checks) :
               checks[i] = HeaderStands(HeaderOf(paths[i]), AfterLoader(OldLines(paths[i])))
        /\ Len(errors) = Len(FailedPaths(Len(checks)))
        /\ \A j \in 1..Len(errors) : errors[j] = ExpectedError(FailedPaths(Len(checks))[j])

\* a file with a loader line ended before the header did: "<EOF>" is reported past line 1
C4_Witness ==
    /\ tool = "licensing"
    /\ \E j \in 1..Len(errors) : errors[j].actual = EOFMARK /\ errors[j].line >= 2
    /\ \E i \in 1..Len(checks) : checks[i]

\* C6: with check enabled every listed file is checked, whatever the earlier results,
\* and the run exits with status 1 iff some check_license call returned False.
C6_CheckAggregates ==
    (tool = "licensing" /\ check /\ pc \notin {"start", "check"} /\ paths # <<>>) =>
        /\ Len(checks) = Len(paths)
        /\ Len(errors) = Cardinality({i \in 1..Len(checks) : ~checks[i]})
        /\ pc = "exited" => (exit_code = 1 <=> \E i \in 1..Len(checks) : ~checks[i])

\* the first file failed, the second was checked all the same and passed; exit status 1
C6_Witness ==
    /\ tool = "licensing" /\ pc = "exited" /\ exit_code = 1
    /\ Len(checks) = 2 /\ ~checks[1] /\ checks[2]

\* apply_license, the content written for path p: the items of out_lines, joined
NewContent(p) == Concat(OutLines(HeaderOf(p), OldLines(p)))

\* C8: at every step of the apply loop, a crash included, a listed file holds either its
\* old content, untouched, or the complete new content, put there by one replace; the
\* temporary file is complete when it is closed; a file apply_license returned 0 for is
\* not written at all.
C8_OriginalNeverPartial ==
    tool = "licensing" =>
        /\ \A p \in PATHS :
               \/ fs[p] = fs0[p] /\ nwrites[p] = 0
               \/ fs[p] = File(NewContent(p)) /\ nwrites[p] = 1
        /\ pc = "apply_replace" => fs[TmpPath(paths[cur])] = File(NewContent(paths[cur]))
        /\ \A i \in 1..Len(applied) :
               /\ applied[i] = 0 => nwrites[paths[i]] = 0
               /\ applied[i] = 1 => nwrites[paths[i]] = 1

\* a crash in the middle of the writes: the temporary file is partial, the original is old
C8_Witness ==
    /\ tool = "licensing" /\ pc = "crashed"
    /\ widx > 1 /\ widx <= Len(out_lines)
    /\ fs[TmpPath(paths[cur])].exists
    /\ fs[TmpPath(paths[cur])].text # NewContent(paths[cur])
    /\ fs[paths[cur]] = fs0[paths[cur]]
    /\ fs0[paths[cur]].text # NewContent(paths[cur])

AllPassed == Len(checks) = Len(paths) /\ \A i \in 1..Len(checks) : checks[i]

\* C10: with check and apply both enabled apply_license is called only after every
\* check_license call, and only when all passed; a run with a failed check exits with
\* status 1 and has modified no file; apply covers all listed files when it runs to its end.
C10_CheckBeforeApply ==
    tool = "licensing" =>
        /\ (check /\ (applied # <<>> \/ pc \in {"apply", "apply_open", "apply_write", "apply_replace"}))
               => AllPassed
        /\ (\E i \in 1..Len(checks) : ~checks[i])
               => /\ applied = <<>> /\ fs = fs0 /\ \A p \in AllPaths : nwrites[p] = 0
                  /\ pc \in {"check", "exited"}
                  /\ pc = "exited" => exit_code = 1
        /\ (applied # <<>>) => (apply /\ (~check \/ AllPassed))
        /\ (pc = "exited" /\ apply /\ (~check \/ AllPassed)) => Len(applied) = Len(paths)

\* check and apply enabled, a check failed, the run exited 1 and a file that apply_license
\* would have modified is as it was
C10_Witness ==
    /\ tool = "licensing" /\ check /\ apply /\ pc = "exited" /\ exit_code = 1
    /\ Len(checks) = 2 /\ checks[1] /\ ~checks[2]
    /\ ~AlreadyLicensed(COMMENTS[Suffix(paths[2])], LinesOf(paths[2]))
    /\ fs = fs0

\* -------------------------------------------------- properties: banwords
BannedWords == load_banlist(bantext)

LowerStr(w) == [k \in 1..Len(w) |-> Lower(w[k])]

\* the banned word w stands in the line as a whole word, in any case
WholeWordIn(w, line) ==
    \E i \in 1..(Len(line) + 1) :
        Boundary(line, i) /\ MatchAt(line, i, w) /\ Boundary(line, i + Len(w))

\* the number of distinct banned words matched on a line
DistinctBannedOn(line) ==
    Cardinality({LowerStr(BannedWords[k]) : k \in {j \in 1..Len(BannedWords) : WholeWordIn(BannedWords[j], line)}})

RECURSIVE SumLines(_)
SumLines(ls) == IF ls = <<>> THEN 0 ELSE DistinctBannedOn(Head(ls)) + SumLines(Tail(ls))

\* the grand total: over all listed files that decode as text, over all their lines
RECURSIVE GrandTotal(_)
GrandTotal(ps) ==
    IF ps = <<>> THEN 0
    ELSE (IF Head(ps) \in binary THEN 0 ELSE SumLines(SplitLines(fs[Head(ps)].text)))
             + GrandTotal(Tail(ps))

\* C5: a banword run over a non-empty list scans every listed file and exits with status
\* 1 iff the grand total of distinct banned words matched, line by line, is not zero, and
\* with status 0 otherwise.
C5_ExitIffBannedWordFound ==
    (tool = "banwords" /\ pc = "exited" /\ paths # <<>>) =>
        /\ Len(counts) = Len(paths)
        /\ exit_code \in {0, 1}
        /\ exit_code = 1 <=> GrandTotal(paths) # 0

\* C7: a diagnostic logged with show=False nowhere contains the text of a banned word
\* matched on its line; one logged with show=True contains each of them.
C7_Redaction ==
    \A j \in 1..Len(log) :
        \A k \in 1..Len(log[j].matches) :
            log[j].matches[k] # <<>> =>
                (Contains(log[j].msg, log[j].matches[k]) <=> log[j].show)

\* C9: with a banned-word list that has no word, check_file returns 0 for every file and
\* the run exits with status 0.
C9_EmptyListMatchesNothing ==
    (tool = "banwords" /\ BannedWords = <<>>) =>
        /\ \A i \in 1..Len(counts) : counts[i] = 0
        /\ log = <<>>
        /\ pc = "exited" => exit_code = 0

=============================================================================
